---- MODULE Spec2Model ----
(***************************************************************************)
(* pax-server (src/src/main.rs): a read-only package registry server.      *)
(*                                                                         *)
(* Strings are sequences of one-character strings, so that splitting,      *)
(* prefix tests and semantic-version parsing are computed, not assumed.    *)
(* A path (PathBuf) is the sequence of its component names from the        *)
(* filesystem root "/"; the platform is Unix (no drive prefixes, the only  *)
(* separator is "/").                                                      *)
(***************************************************************************)
EXTENDS Integers, Sequences, FiniteSets, TLC

VARIABLES fs, req, resp, pc, chosen, snap, touched

vars == <<fs, req, resp, pc, chosen, snap, touched>>

(***************************************************************************)
(* Option<T>                                                               *)
(***************************************************************************)
None == [some |-> FALSE]

Some(x) == [some |-> TRUE, val |-> x]

(***************************************************************************)
(* str helpers                                                             *)
(***************************************************************************)
Digits == {"0", "1", "2", "3", "4", "5", "6", "7", "8", "9"}

Letters == {"A", "B", "C", "D", "E", "F", "G", "H", "I", "J", "K", "L", "M",
            "N", "O", "P", "Q", "R", "S", "T", "U", "V", "W", "X", "Y", "Z",
            "a", "b", "c", "d", "e", "f", "g", "h", "i", "j", "k", "l", "m",
            "n", "o", "p", "q", "r", "s", "t", "u", "v", "w", "x", "y", "z"}

\* The characters of the model in ASCII order.
AsciiOrder == <<"+", "-", ".", "/",
                "0", "1", "2", "3", "4", "5", "6", "7", "8", "9",
                "A", "B", "C", "D", "E", "F", "G", "H", "I", "J", "K", "L", "M",
                "N", "O", "P", "Q", "R", "S", "T", "U", "V", "W", "X", "Y", "Z",
                "a", "b", "c", "d", "e", "f", "g", "h", "i", "j", "k", "l", "m",
                "n", "o", "p", "q", "r", "s", "t", "u", "v", "w", "x", "y", "z">>

Rank(c) == CHOOSE i \in 1..Len(AsciiOrder) : AsciiOrder[i] = c

\* Ord::cmp on usize
IntCmp(a, b) == IF a < b THEN -1 ELSE IF a > b THEN 1 ELSE 0

\* Ordering::then_with
Then(o, next) == IF o # 0 THEN o ELSE next

\* Ord::cmp on str: byte-wise lexicographic; -1, 0 or 1.
RECURSIVE StrCmp(_, _)
StrCmp(a, b) ==
    IF a = <<>> \/ b = <<>> THEN IntCmp(Len(a), Len(b))
    ELSE Then(IntCmp(Rank(Head(a)), Rank(Head(b))), StrCmp(Tail(a), Tail(b)))

\* str::starts_with
starts_with(s, prefix) ==
    /\ Len(prefix) <= Len(s)
    /\ SubSeq(s, 1, Len(prefix)) = prefix

\* Index of the first occurrence of character c in s, 0 when there is none.
RECURSIVE FindFrom(_, _, _)
FindFrom(s, c, i) ==
    IF i > Len(s) THEN 0
    ELSE IF s[i] = c THEN i
    ELSE FindFrom(s, c, i + 1)

Find(s, c) == FindFrom(s, c, 1)

\* str::split(c): the segments between occurrences of c, empty ones kept;
\* never an empty sequence ("" splits into one empty segment).
RECURSIVE split(_, _)
split(s, c) ==
    LET i == Find(s, c) IN
    IF i = 0 THEN <<s>>
    ELSE <<SubSeq(s, 1, i - 1)>> \o split(SubSeq(s, i + 1, Len(s)), c)

\* str::trim_start_matches(c)
RECURSIVE trim_start_matches(_, _)
trim_start_matches(s, c) ==
    IF s # <<>> /\ Head(s) = c THEN trim_start_matches(Tail(s), c) ELSE s

\* format!("{a}{b}...") : concatenation of the pieces
RECURSIVE format(_)
format(pieces) ==
    IF pieces = <<>> THEN <<>> ELSE Head(pieces) \o format(Tail(pieces))

(***************************************************************************)
(* std::path                                                               *)
(***************************************************************************)
\* Path::components() on Unix: an optional RootDir, a leading "." as CurDir,
\* then every non-empty segment: "." is dropped, ".." is ParentDir, anything
\* else is Normal.
RECURSIVE ComponentsBody(_)
ComponentsBody(segs) ==
    IF segs = <<>> THEN <<>>
    ELSE LET seg == Head(segs)
             rest == ComponentsBody(Tail(segs))
         IN  IF seg = <<>> \/ seg = <<".">> THEN rest
             ELSE IF seg = <<".", ".">> THEN <<[kind |-> "ParentDir", name |-> seg]>> \o rest
             ELSE <<[kind |-> "Normal", name |-> seg]>> \o rest

components(s) ==
    LET segs == split(s, "/")
        has_root == s # <<>> /\ Head(s) = "/"
    IN  IF has_root
        THEN <<[kind |-> "RootDir", name |-> <<"/">>]>> \o ComponentsBody(segs)
        ELSE IF Head(segs) = <<".">>
        THEN <<[kind |-> "CurDir", name |-> <<".">>]>> \o ComponentsBody(Tail(segs))
        ELSE ComponentsBody(segs)

\* PathBuf::push: an absolute argument replaces the path, a relative one is
\* appended component by component.
push(path, p) ==
    LET names == [i \in 1..Len(components(p)) |-> components(p)[i].name] IN
    IF p # <<>> /\ Head(p) = "/"
    THEN SubSeq(names, 2, Len(names))
    ELSE path \o names

AllNormal(comps) == \A i \in 1..Len(comps) : comps[i].kind = "Normal"

\* path_check with the ParentDir arm merged into the CurDir arm: ".." is
\* skipped instead of rejected.
RECURSIVE path_check_loop_skips_parent(_, _)
path_check_loop_skips_parent(comps, finalpath) ==
    IF comps = <<>> THEN Some(finalpath)
    ELSE LET component == Head(comps) IN
         CASE component.kind = "Normal" ->
                  path_check_loop_skips_parent(Tail(comps),
                                               push(finalpath, component.name))
           [] component.kind \in {"CurDir", "ParentDir"} ->
                  path_check_loop_skips_parent(Tail(comps), finalpath)
           [] OTHER -> None

\* path_check, lines 266-287: the loop over the components of the trimmed
\* input; None as soon as a component is rejected.
RECURSIVE path_check_loop(_, _)
path_check_loop(comps, finalpath) ==
    IF comps = <<>> THEN Some(finalpath)
    ELSE LET component == Head(comps) IN
         CASE component.kind = "Normal" ->
                  IF AllNormal(components(component.name))
                  THEN path_check_loop(Tail(comps), push(finalpath, component.name))
                  ELSE None
           [] component.kind = "CurDir" ->
                  path_check_loop(Tail(comps), finalpath)
           [] OTHER -> None

path_check(subpath_str, origpath) ==
    LET subpath == trim_start_matches(subpath_str, "/") IN
    path_check_loop(components(subpath), origpath)

(***************************************************************************)
(* semver::Version (the crate used at lines 67-69 and 105-107): parsing    *)
(* and the total order.  Numbers are kept as digit strings without leading *)
(* zeros and compared by length, then digit by digit, as u64 values        *)
(* compare.                                                                *)
(***************************************************************************)
IdentChars == Digits \cup Letters \cup {"-"}

\* Length of the longest prefix of s made of characters of set.
RECURSIVE PrefixLen(_, _)
PrefixLen(s, set) ==
    IF s # <<>> /\ Head(s) \in set THEN 1 + PrefixLen(Tail(s), set) ELSE 0

\* bytes().all(is_ascii_digit): true of the empty string
AllDigits(s) == \A i \in 1..Len(s) : s[i] \in Digits

NumCmp(a, b) == Then(IntCmp(Len(a), Len(b)), StrCmp(a, b))

U64Max == <<"1", "8", "4", "4", "6", "7", "4", "4", "0", "7",
            "3", "7", "0", "9", "5", "5", "1", "6", "1", "5">>

\* numeric_identifier: a non-empty run of digits, no leading zero, within u64
NumericRun(s, n) ==
    IF n = 0 \/ (n > 1 /\ s[1] = "0") \/ NumCmp(SubSeq(s, 1, n), U64Max) = 1
    THEN None
    ELSE Some([num |-> SubSeq(s, 1, n), rest |-> SubSeq(s, n + 1, Len(s))])

numeric_identifier(s) == NumericRun(s, PrefixLen(s, Digits))

\* dot: the next character must be "."
dot(s) == IF s # <<>> /\ Head(s) = "." THEN Some(Tail(s)) ELSE None

\* identifier: the longest run of identifier characters and dots; every
\* dot-separated segment is non-empty, and (pre-release only) an all-digit
\* segment has no leading zero.
IdentifierRun(s, n, segs, isPre) ==
    IF \/ n = 0
       \/ \E i \in 1..Len(segs) : segs[i] = <<>>
       \/ /\ isPre
          /\ \E i \in 1..Len(segs) :
                Len(segs[i]) > 1 /\ AllDigits(segs[i]) /\ segs[i][1] = "0"
    THEN None
    ELSE Some([id |-> SubSeq(s, 1, n), rest |-> SubSeq(s, n + 1, Len(s))])

IdentifierOfLen(s, n, isPre) ==
    IdentifierRun(s, n, split(SubSeq(s, 1, n), "."), isPre)

identifier(s, isPre) == IdentifierOfLen(s, PrefixLen(s, IdentChars \cup {"."}), isPre)

\* Version::parse, from its end to its beginning: the build metadata and the
\* end of the text,
ParseEnd(major, minor, patch, pre, build) ==
    IF build.some /\ build.val.rest = <<>>
    THEN Some([major |-> major, minor |-> minor, patch |-> patch,
               pre |-> pre, build |-> build.val.id])
    ELSE None

ParseBuild(major, minor, patch, pre, text) ==
    ParseEnd(major, minor, patch, pre,
             IF text # <<>> /\ Head(text) = "+"
             THEN identifier(Tail(text), FALSE)
             ELSE Some([id |-> <<>>, rest |-> text]))

\* the pre-release,
ParseAfterPre(major, minor, patch, pre) ==
    IF pre.some
    THEN ParseBuild(major, minor, patch, pre.val.id, pre.val.rest)
    ELSE None

ParsePre(major, minor, patch, text) ==
    ParseAfterPre(major, minor, patch,
                  IF text # <<>> /\ Head(text) = "-"
                  THEN identifier(Tail(text), TRUE)
                  ELSE Some([id |-> <<>>, rest |-> text]))

\* patch,
ParseAfterPatch(major, minor, patch) ==
    IF patch.some THEN ParsePre(major, minor, patch.val.num, patch.val.rest) ELSE None

ParsePatch(major, minor, text) ==
    IF text.some THEN ParseAfterPatch(major, minor, numeric_identifier(text.val))
    ELSE None

\* minor,
ParseAfterMinor(major, minor) ==
    IF minor.some THEN ParsePatch(major, minor.val.num, dot(minor.val.rest)) ELSE None

ParseMinor(major, text) ==
    IF text.some THEN ParseAfterMinor(major, numeric_identifier(text.val)) ELSE None

\* major.
ParseAfterMajor(major) ==
    IF major.some THEN ParseMinor(major.val.num, dot(major.val.rest)) ELSE None

\* Version::parse
SemVerParse(text) == ParseAfterMajor(numeric_identifier(text))

\* SemVer::new(0, 0, 0)
SemVerZero ==
    [major |-> <<"0">>, minor |-> <<"0">>, patch |-> <<"0">>, pre |-> <<>>, build |-> <<>>]

\* Ord for Prerelease, on the dot-separated identifiers: numeric ones compare
\* as numbers and are less than the others, which compare as strings; a
\* longer list is greater than its prefix.
PreIdentCmp(a, b) ==
    IF AllDigits(a)
    THEN (IF AllDigits(b) THEN NumCmp(a, b) ELSE -1)
    ELSE (IF AllDigits(b) THEN 1 ELSE StrCmp(a, b))

RECURSIVE PreSegsCmp(_, _)
PreSegsCmp(l, r) ==
    IF l = <<>> \/ r = <<>> THEN IntCmp(Len(l), Len(r))
    ELSE Then(PreIdentCmp(Head(l), Head(r)), PreSegsCmp(Tail(l), Tail(r)))

\* An empty pre-release (a release) is greater than any pre-release.
PreCmp(a, b) ==
    IF a = <<>> \/ b = <<>>
    THEN IntCmp(IF a = <<>> THEN 1 ELSE 0, IF b = <<>> THEN 1 ELSE 0)
    ELSE PreSegsCmp(split(a, "."), split(b, "."))

\* Ord for BuildMetadata: all-digit identifiers compare by value, then by
\* their number of leading zeros (0 < 00 < 1 < 01 < 001 < 2)
BuildNumCmp(a, b) ==
    Then(NumCmp(trim_start_matches(a, "0"), trim_start_matches(b, "0")),
         IntCmp(Len(a), Len(b)))

BuildIdentCmp(a, b) ==
    IF AllDigits(a)
    THEN (IF AllDigits(b) THEN BuildNumCmp(a, b) ELSE -1)
    ELSE (IF AllDigits(b) THEN 1 ELSE StrCmp(a, b))

RECURSIVE BuildSegsCmp(_, _)
BuildSegsCmp(l, r) ==
    IF l = <<>> \/ r = <<>> THEN IntCmp(Len(l), Len(r))
    ELSE Then(BuildIdentCmp(Head(l), Head(r)), BuildSegsCmp(Tail(l), Tail(r)))

BuildCmp(a, b) == BuildSegsCmp(split(a, "."), split(b, "."))

\* Ord for Version: major, minor, patch, pre, build
SemVerCmp(a, b) ==
    Then(NumCmp(a.major, b.major),
    Then(NumCmp(a.minor, b.minor),
    Then(NumCmp(a.patch, b.patch),
    Then(PreCmp(a.pre, b.pre),
         BuildCmp(a.build, b.build)))))

\* The sort key of lines 67-69 and 105-107:
\* SemVer::parse(name).unwrap_or(SemVer::new(0, 0, 0))
unwrap_or(parsed, default) == IF parsed.some THEN parsed.val ELSE default

SortKey(name) == unwrap_or(SemVerParse(name), SemVerZero)

\* Vec::sort_by_key: a stable sort; an element goes after every element whose
\* key is less than or equal to its own.
RECURSIVE InsertByKey(_, _)
InsertByKey(sorted, x) ==
    IF sorted = <<>> THEN <<x>>
    ELSE IF SemVerCmp(SortKey(x), SortKey(Head(sorted))) < 0
    THEN <<x>> \o sorted
    ELSE <<Head(sorted)>> \o InsertByKey(Tail(sorted), x)

\* The sort left out: the entries stay in enumeration order.
sort_by_key_unsorted(names) == names

RECURSIVE sort_by_key(_)
sort_by_key(names) ==
    IF names = <<>> THEN <<>>
    ELSE InsertByKey(sort_by_key(SubSeq(names, 1, Len(names) - 1)), names[Len(names)])

\* slice::last
last(s) == IF s = <<>> THEN None ELSE Some(s[Len(s)])

(***************************************************************************)
(* The filesystem: a function from the absolute paths that exist to what   *)
(* is there: "dir", or the content of a regular file ("yaml_ok": a         *)
(* descriptor that decodes as PackageMetadata, "yaml_bad": one that does   *)
(* not, "bytes": an archive).                                              *)
(***************************************************************************)
is_dir(f, path) == path \in DOMAIN f /\ f[path] = "dir"

is_file(f, path) == path \in DOMAIN f /\ f[path] # "dir"

\* Path::read_dir: the names of the entries of a directory, or an error
read_dir(f, path) ==
    IF is_dir(f, path)
    THEN Some({p[Len(p)] : p \in {e \in DOMAIN f :
                  Len(e) = Len(path) + 1 /\ SubSeq(e, 1, Len(path)) = path}})
    ELSE None

\* The orders in which read_dir may yield the entries: any order.
RECURSIVE Orders(_)
Orders(S) ==
    IF S = {} THEN {<<>>}
    ELSE UNION {{<<x>> \o o : o \in Orders(S \ {x})} : x \in S}

metadata_yaml == <<"m", "e", "t", "a", "d", "a", "t", "a", ".", "y", "a", "m", "l">>

\* Lines 62-66 and 76-79: the entries, in enumeration order, that are
\* directories.
subdirs(f, path, order) ==
    SelectSeq(order, LAMBDA n : is_dir(f, push(path, n)))

\* Lines 62-70 of get_latest: the name of the directory chosen, before the
\* descriptor is looked for.
latest_select(f, path, order) ==
    IF ~read_dir(f, path).some THEN None
    ELSE last(sort_by_key(subdirs(f, path, order)))

\* Lines 80-103 with the "." left out of the two prefixes
version_filter_no_dot(dirs, ver) ==
    LET parts == split(ver, ".") IN
    CASE Len(parts) = 1 ->
             Some(SelectSeq(dirs, LAMBDA x : starts_with(x, parts[1])))
      [] Len(parts) = 2 ->
             Some(SelectSeq(dirs, LAMBDA x :
                 starts_with(x, format(<<parts[1], <<".">>, parts[2]>>))))
      [] Len(parts) = 3 ->
             Some(SelectSeq(dirs, LAMBDA x : x = ver))
      [] OTHER -> None

\* Lines 80-103 of get_version: the candidates of a version string.
version_filter(dirs, ver) ==
    LET parts == split(ver, ".") IN
    CASE Len(parts) = 1 ->
             Some(SelectSeq(dirs, LAMBDA x :
                 starts_with(x, format(<<parts[1], <<".">>>>))))
      [] Len(parts) = 2 ->
             Some(SelectSeq(dirs, LAMBDA x :
                 starts_with(x, format(<<parts[1], <<".">>, parts[2], <<".">>>>))))
      [] Len(parts) = 3 ->
             Some(SelectSeq(dirs, LAMBDA x : x = ver))
      [] OTHER -> None

\* Lines 76-112 of get_version: the name of the directory chosen.
version_select(f, path, ver, order) ==
    IF ~read_dir(f, path).some THEN None
    ELSE LET dirs == version_filter(subdirs(f, path, order), ver) IN
         IF dirs.some THEN last(sort_by_key(dirs.val)) ELSE None

\* The descriptor looked for in the directory that sorts last on disk now,
\* not in the one chosen from the listing (the directory is listed again).
descriptor_relists(f, path, dir) ==
    IF ~dir.some THEN None
    ELSE LET now == latest_select(f, path,
                        CHOOSE o \in Orders(read_dir(f, path).val) : TRUE)
             latest == push(push(path, now.val), metadata_yaml)
         IN  IF is_file(f, latest) THEN Some(latest) ELSE None

\* Lines 70-72 and 112-114: the descriptor of the chosen directory, if it is
\* a file.
descriptor(f, path, dir) ==
    IF ~dir.some THEN None
    ELSE LET latest == push(push(path, dir.val), metadata_yaml) IN
         IF is_file(f, latest) THEN Some(latest) ELSE None

get_latest(f, path, order) == descriptor(f, path, latest_select(f, path, order))

get_version(f, path, ver, order) ==
    descriptor(f, path, version_select(f, path, ver, order))

\* Lines 36-40: v is Option<String>
resolve_select(f, location, v, order) ==
    IF v.some THEN version_select(f, location, v.val, order)
    ELSE latest_select(f, location, order)

resolve(f, location, v, order) ==
    IF v.some THEN get_version(f, location, v.val, order)
    ELSE get_latest(f, location, order)

\* yaml_file_to_json_str, lines 155-161
yaml_file_to_json_str(f, path) ==
    IF ~is_file(f, path) THEN None
    ELSE IF f[path] = "yaml_ok" THEN Some(<<"json", path>>)
    ELSE None

\* An error response: InternalError::new(message, status)
\* (opened: the file the handler opened or tried to open, if any)
ErrorAt(message, status, opened) ==
    [status |-> status, body |-> message, opened |-> opened]

Error(message, status) == ErrorAt(message, status, None)

\* Lines 44-51 of metadata: the descriptor is read and transcoded
metadata_read(f, path) ==
    LET body == yaml_file_to_json_str(f, path) IN
    IF body.some
    THEN [status |-> 200, body |-> body.val, opened |-> Some(path)]
    ELSE ErrorAt("Error reading package metadata!", 500, Some(path))

\* Lines 52-57 of metadata
metadata_missing ==
    Error("Requested package's version's metadata could not be found.", 404)

\* Lines 41-58 of metadata: the response once the resolver has returned
metadata_reply(f, location) ==
    IF location.some /\ is_file(f, location.val)
    THEN metadata_read(f, location.val)
    ELSE metadata_missing

\* Lines 19-35 with the two error responses exchanged
metadata_location_swapped(f, root, name) ==
    LET location == path_check(name, root) IN
    IF location.some
    THEN IF is_dir(f, location.val)
         THEN [ok |-> TRUE, location |-> location.val]
         ELSE [ok |-> FALSE,
               error |-> Error("You do not have access to this location.", 403)]
    ELSE [ok |-> FALSE,
          error |-> Error("Requested package could not be found.", 404)]

\* Lines 19-35 of metadata: the package directory, or the error response
metadata_location(f, root, name) ==
    LET location == path_check(name, root) IN
    IF location.some
    THEN IF is_dir(f, location.val)
         THEN [ok |-> TRUE, location |-> location.val]
         ELSE [ok |-> FALSE,
               error |-> Error("Requested package could not be found.", 404)]
    ELSE [ok |-> FALSE,
          error |-> Error("You do not have access to this location.", 403)]

\* GET /packages/metadata/{name}[?v=spec], lines 13-59
metadata(f, root, name, v, order) ==
    LET loc == metadata_location(f, root, name) IN
    IF loc.ok
    THEN metadata_reply(f, resolve(f, loc.location, v, order))
    ELSE loc.error

pax == <<".", "p", "a", "x">>

\* Lines 122-124 and 139-151 of package: the package directory, or the
\* error response
package_location(f, root, name) ==
    LET location == path_check(name, root) IN
    IF location.some
    THEN IF is_dir(f, location.val)
         THEN [ok |-> TRUE, location |-> location.val]
         ELSE [ok |-> FALSE,
               error |-> Error("Requested file could not be found.", 404)]
    ELSE [ok |-> FALSE,
          error |-> Error("You do not have access to this location.", 403)]

\* NamedFile::open, line 127: File::open succeeds on whatever exists at the
\* path, a directory included (only reading the body then fails); the
\* handler never asks whether the path is a regular file.
NamedFile_open(f, path) == IF path \in DOMAIN f THEN Some(path) ELSE None

\* Lines 125-137 and 152 of package: the archive is named, validated
\* against the package directory and opened
package_open(f, location, name, ver) ==
    LET archive == format(<<name, <<"-">>, ver, pax>>)
        file == path_check(archive, location)
    IN  IF file.some
        THEN IF NamedFile_open(f, file.val).some
             THEN [status |-> 200, body |-> <<"file", file.val>>,
                   opened |-> file]
             ELSE ErrorAt("Error reading package!", 500, file)
        ELSE Error("Something went wrong.", 500)

\* GET /package/{name}/{ver}, lines 117-153
package(f, root, name, ver) ==
    LET loc == package_location(f, root, name) IN
    IF loc.ok
    THEN package_open(f, loc.location, name, ver)
    ELSE loc.error

(***************************************************************************)
(* Configuration and the parts of the state shared by the specifications   *)
(***************************************************************************)
\* CoreData.directory: the registry root, here "/srv"
directory == <<<<"s", "r", "v">>>>

pkg == <<"p", "k", "g">>

notes == <<"n", "o", "t", "e", "s">>

\* The registry as the server starts: one package directory and one plain
\* file beneath the root.
BaseFs ==
    (directory :> "dir") @@ (push(directory, pkg) :> "dir")
        @@ (push(directory, notes) :> "bytes")

NoReq == [op |-> "none"]

NoResp == [status |-> 0]

Idle ==
    /\ req = NoReq
    /\ resp = NoResp
    /\ pc = "idle"
    /\ chosen = None
    /\ touched = {}

(***************************************************************************)
(* SpecPath: path_check applied to every short string over PathChars       *)
(***************************************************************************)
MaxPathLen == 5

PathChars == {"/", ".", "a", "b"}

PathStrings == UNION {[1..n -> PathChars] : n \in 0..MaxPathLen}

PathBases == {directory, push(directory, pkg)}

InitPath == fs = BaseFs /\ snap = BaseFs /\ Idle

PathCheck(subpath_str, origpath) ==
    /\ pc = "idle"
    /\ req' = [op |-> "path_check", subpath_str |-> subpath_str, origpath |-> origpath]
    /\ resp' = [status |-> 0, result |-> path_check(subpath_str, origpath)]
    /\ pc' = "done"
    /\ UNCHANGED <<fs, chosen, snap, touched>>

NextPath == \E s \in PathStrings, b \in PathBases : PathCheck(s, b)

SpecPath == InitPath /\ [][NextPath]_vars

\* s[i..j] is a whole component of s: a maximal run without "/"
IsSegment(s, i, j) ==
    /\ 1 <= i /\ i <= j /\ j <= Len(s)
    /\ \A k \in i..j : s[k] # "/"
    /\ (i = 1 \/ s[i - 1] = "/")
    /\ (j = Len(s) \/ s[j + 1] = "/")

HasParentDir(s) ==
    \E i \in 1..Len(s) : IsSegment(s, i, i + 1) /\ s[i] = "." /\ s[i + 1] = "."

HasCurDir(s) == \E i \in 1..Len(s) : IsSegment(s, i, i) /\ s[i] = "."

\* The plain-name components of s, left to right.
RECURSIVE PlainNamesFrom(_, _)
PlainNamesFrom(s, i) ==
    IF i > Len(s) THEN <<>>
    ELSE IF \E j \in i..Len(s) : IsSegment(s, i, j)
    THEN LET j == CHOOSE j \in i..Len(s) : IsSegment(s, i, j)
             seg == SubSeq(s, i, j)
         IN  IF seg = <<".">> \/ seg = <<".", ".">>
             THEN PlainNamesFrom(s, j + 1)
             ELSE <<seg>> \o PlainNamesFrom(s, j + 1)
    ELSE PlainNamesFrom(s, i + 1)

PlainNames(s) == PlainNamesFrom(s, 1)

\* C1: path_check rejects every input with a ".." component, and accepts
\* every other input (plain names and "." only), returning the base followed
\* by exactly the plain names in their order, so the base is a prefix of the
\* result.
C1_PathCheckContract ==
    req.op = "path_check" =>
        LET s == req.subpath_str
            base == req.origpath
            r == resp.result
        IN  /\ HasParentDir(s) => r = None
            /\ ~HasParentDir(s) =>
                  /\ r = Some(base \o PlainNames(s))
                  /\ SubSeq(r.val, 1, Len(base)) = base

\* An input with a "." component and two plain names has been accepted.
C1_Witness ==
    /\ req.op = "path_check"
    /\ HasCurDir(req.subpath_str)
    /\ resp.result.some
    /\ Len(resp.result.val) = Len(req.origpath) + 2


(***************************************************************************)
(* Spec: the server answering one request at a time, each handler taken    *)
(* one filesystem call at a step, on a registry that a publisher changes   *)
(* at any moment.                                                          *)
(***************************************************************************)
MaxPublished == 2

HttpVersions == {<<"1", ".", "0", ".", "0">>, <<"2", ".", "0", ".", "0">>, <<"a", ".", "b", ".", "c">>}

MetadataNames ==
    {pkg, notes, <<"n", "o", "p", "e">>, <<".", ".", "/", "p", "k", "g">>, <<"/", "p", "k", "g">>, <<".", "/", "p", "k", "g">>, <<"p", "k", "g", "/", "1", ".", "0", ".", "0">>, <<"p", "k", "g", "/", ".", ".">>}

MetadataVersions ==
    {None} \cup {Some(v) : v \in {<<>>, <<"1">>, <<"1", ".", "0">>, <<"1", ".", "0", ".", "0">>, <<"2">>, <<"a">>, <<"a", ".", "b">>,
                                  <<"a", ".", "b", ".", "c">>, <<"1", ".", "2", ".", "3", ".", "4">>}}

PackageNames == {pkg, notes, <<"n", "o", "p", "e">>, <<".", ".", "/", "p", "k", "g">>, <<"/", "p", "k", "g">>, <<"p", "k", "g", "/", "1", ".", "0", ".", "0">>}

PackageVersions == {<<"1", ".", "0", ".", "0">>, <<"2", ".", "0", ".", "0">>, <<"x", "/", ".", ".", "/", "y">>, <<".", ".", "/", "1", ".", "0", ".", "0">>}

\* The version whose archive the publisher uploads
ArchiveVersion == <<"1", ".", "0", ".", "0">>

ArchiveName == format(<<pkg, <<"-">>, ArchiveVersion, pax>>)

PkgDir == push(directory, pkg)

VersionDir(v) == push(PkgDir, v)

Descriptor(v) == push(VersionDir(v), metadata_yaml)

Published(f) == {v \in HttpVersions : VersionDir(v) \in DOMAIN f}

Remove(f, path) == [p \in DOMAIN f \ {path} |-> f[p]]

Put(f, path, node) == (path :> node) @@ f

Init == fs = BaseFs /\ snap = BaseFs /\ Idle

\* The publisher adds a version directory.
PublishVersion(v) ==
    /\ VersionDir(v) \notin DOMAIN fs
    /\ Cardinality(Published(fs)) < MaxPublished
    /\ fs' = Put(fs, VersionDir(v), "dir")

\* The publisher writes (or overwrites) a version's metadata.yaml.
PutDescriptor(v, node) ==
    /\ VersionDir(v) \in DOMAIN fs
    /\ fs' = Put(fs, Descriptor(v), node)
    /\ fs' # fs

\* The publisher deletes a version's metadata.yaml.
RemoveDescriptor(v) ==
    /\ Descriptor(v) \in DOMAIN fs
    /\ fs' = Remove(fs, Descriptor(v))

\* The publisher puts something at the archive path of ArchiveVersion, in
\* the package directory or in the version directory: the archive, or a
\* directory of that name.
PutArchive(dir, node) ==
    /\ dir \in DOMAIN fs
    /\ push(dir, ArchiveName) \notin DOMAIN fs
    /\ fs' = Put(fs, push(dir, ArchiveName), node)

Publisher ==
    \/ \E v \in HttpVersions : PublishVersion(v)
    \/ \E v \in HttpVersions, node \in {"yaml_ok", "yaml_bad"} : PutDescriptor(v, node)
    \/ \E v \in HttpVersions : RemoveDescriptor(v)
    \/ \E dir \in {PkgDir, VersionDir(ArchiveVersion)}, node \in {"bytes", "dir"} :
          PutArchive(dir, node)

\* The handlers take no lock: the publisher acts between any two of their
\* filesystem calls as well as between requests.
Publish ==
    /\ Publisher
    /\ UNCHANGED <<req, resp, pc, chosen, snap, touched>>

\* What the handlers leave alone: the history kept for SpecRace.
history == <<snap, touched>>

\* The package directory of the request in flight (path_check reads no file)
Location == path_check(req.name, directory).val

\* The enumeration orders read_dir may produce for a directory (one empty
\* order when it cannot be read).
ListingOrders(f, location) ==
    IF read_dir(f, location).some THEN Orders(read_dir(f, location).val)
    ELSE {<<>>}

\* Lines 19-35: the name is validated and the package directory looked up.
MetadataStart(name, v) ==
    /\ pc = "idle"
    /\ req' = [op |-> "metadata", name |-> name, v |-> v]
    /\ LET loc == metadata_location(fs, directory, name) IN
       IF loc.ok
       THEN pc' = "resolve" /\ resp' = NoResp
       ELSE pc' = "done" /\ resp' = loc.error
    /\ UNCHANGED <<fs, chosen>>

\* Lines 62-70 / 76-112: the directory is listed, filtered and sorted and
\* its last entry taken.
MetadataList ==
    /\ pc = "resolve"
    /\ \E order \in ListingOrders(fs, Location) :
          chosen' = resolve_select(fs, Location, req.v, order)
    /\ IF chosen'.some
       THEN pc' = "chosen" /\ resp' = resp
       ELSE pc' = "done" /\ resp' = metadata_missing
    /\ UNCHANGED <<fs, req>>

\* Lines 70-72 / 112-114: is the descriptor of the chosen directory a file?
MetadataCheck ==
    /\ pc = "chosen"
    /\ IF descriptor(fs, Location, chosen).some
       THEN pc' = "resolved" /\ resp' = resp
       ELSE pc' = "done" /\ resp' = metadata_missing
    /\ UNCHANGED <<fs, req, chosen>>

\* The path get_latest / get_version returned
Resolved == push(push(Location, chosen.val), metadata_yaml)

\* Lines 41-42: the handler asks again whether the path is a file.
MetadataRecheck ==
    /\ pc = "resolved"
    /\ IF is_file(fs, Resolved)
       THEN pc' = "read" /\ resp' = resp
       ELSE pc' = "done" /\ resp' = metadata_missing
    /\ UNCHANGED <<fs, req, chosen>>

\* Lines 44-51: the descriptor is opened, read and transcoded.
MetadataRead ==
    /\ pc = "read"
    /\ resp' = metadata_read(fs, Resolved)
    /\ pc' = "done"
    /\ UNCHANGED <<fs, req, chosen>>

\* Lines 122-124, 139-151: the name is validated and the package directory
\* looked up.
PackageStart(name, ver) ==
    /\ pc = "idle"
    /\ req' = [op |-> "package", name |-> name, ver |-> ver]
    /\ LET loc == package_location(fs, directory, name) IN
       IF loc.ok
       THEN pc' = "open" /\ resp' = NoResp
       ELSE pc' = "done" /\ resp' = loc.error
    /\ UNCHANGED <<fs, chosen>>

\* Lines 125-137, 152: the archive is named, validated and opened.
PackageOpen ==
    /\ pc = "open"
    /\ resp' = package_open(fs, Location, req.name, req.ver)
    /\ pc' = "done"
    /\ UNCHANGED <<fs, req, chosen>>

\* The response is sent; the server is ready for the next request.
Deliver ==
    /\ pc = "done"
    /\ req' = NoReq
    /\ resp' = NoResp
    /\ pc' = "idle"
    /\ chosen' = None
    /\ UNCHANGED fs

Next ==
    \/ Publish
    \/ \E name \in MetadataNames, v \in MetadataVersions :
          MetadataStart(name, v) /\ UNCHANGED history
    \/ MetadataList /\ UNCHANGED history
    \/ MetadataCheck /\ UNCHANGED history
    \/ MetadataRecheck /\ UNCHANGED history
    \/ MetadataRead /\ UNCHANGED history
    \/ \E name \in PackageNames, ver \in PackageVersions :
          PackageStart(name, ver) /\ UNCHANGED history
    \/ PackageOpen /\ UNCHANGED history
    \/ Deliver /\ UNCHANGED history

Spec == Init /\ [][Next]_vars


(***************************************************************************)
(* Claims about the two endpoints, checked under Spec.  A handler's        *)
(* response is judged in the step that makes it, against the filesystem    *)
(* that step sees: afterwards the publisher may change the registry under  *)
(* a response already made.                                                *)
(***************************************************************************)
\* A path that stays inside root: root is a prefix and no ".." follows it.
Within(root, path) ==
    /\ Len(path) >= Len(root)
    /\ SubSeq(path, 1, Len(root)) = root
    /\ \A i \in 1..Len(path) : path[i] # <<".", ".">>

\* Whether an untrusted segment passes path validation (C1)
Validates(s) == ~HasParentDir(s)

\* The archive filename derived from a package request
ArchiveOf(r) == format(<<r.name, <<"-">>, r.ver, pax>>)

\* The package directory a validated name denotes
PackageDirOf(name) == directory \o PlainNames(name)

\* The step in which a handler returns its response
Returns == pc # "done" /\ pc' = "done"

\* C2: on GET /package/{name}/{ver}, if the name or the derived archive
\* filename fails path validation the response is 403 and no file outside the
\* registry root is opened.
C2_PackageForbidden ==
    [][(/\ Returns
        /\ req'.op = "package"
        /\ (~Validates(req'.name) \/ ~Validates(ArchiveOf(req')))) =>
           /\ resp'.status = 403
           /\ resp'.opened.some => Within(directory, resp'.opened.val)]_vars

\* C3: on GET /package/{name}/{ver}, if both segments validate and the package
\* directory exists but the archive file does not, the response is 404; 500
\* is returned only for a file that exists.
C3_PackageNotFound ==
    [][(/\ Returns
        /\ req'.op = "package"
        /\ Validates(req'.name) /\ Validates(ArchiveOf(req'))
        /\ is_dir(fs, PackageDirOf(req'.name))) =>
           LET file == PackageDirOf(req'.name) \o PlainNames(ArchiveOf(req')) IN
           /\ file \notin DOMAIN fs => resp'.status = 404
           /\ resp'.status = 500 => file \in DOMAIN fs]_vars

\* The status the 403 / 404 / 500 / 200 cascade gives a metadata request r on
\* filesystem f when the resolver picked dir.
C4_Expected(f, r, dir) ==
    LET location == PackageDirOf(r.name) IN
    IF ~Validates(r.name) THEN 403
    ELSE IF ~is_dir(f, location) THEN 404
    ELSE IF ~dir.some THEN 404
    ELSE IF (location \o <<dir.val, metadata_yaml>>) \notin DOMAIN f THEN 404
    ELSE IF f[location \o <<dir.val, metadata_yaml>>] # "yaml_ok" THEN 500
    ELSE 200

HasSubdirectory(f, location) ==
    \E p \in DOMAIN f :
        /\ Len(p) = Len(location) + 1
        /\ SubSeq(p, 1, Len(location)) = location
        /\ f[p] = "dir"

\* C4 as claimed: GET /packages/metadata/{name}[?v=spec] ends in exactly one
\* outcome, read off the registry as it is when the handler returns: 403 iff
\* the name fails validation; otherwise 404 iff the package directory does
\* not exist, no version directory is resolved (always so when the package
\* directory has no subdirectory) or the resolved version has no
\* metadata.yaml; otherwise 500 iff the descriptor exists but cannot be
\* decoded; otherwise 200 with the JSON of the descriptor.
C4_MetadataOutcome ==
    [][(Returns /\ req'.op = "metadata") =>
          /\ resp'.status \in {200, 403, 404, 500}
          /\ resp'.status = C4_Expected(fs, req', chosen')
          /\ (Validates(req'.name) /\ ~HasSubdirectory(fs, PackageDirOf(req'.name)))
                => resp'.status = 404
          /\ resp'.status = 200 =>
                resp'.body = <<"json", PackageDirOf(req'.name)
                                          \o <<chosen'.val, metadata_yaml>>>>]_vars

\* The status with which the metadata handler returns from position p on
\* filesystem f (request r, resolved directory dir), or 0 when it goes on to
\* its next filesystem call.
C4_StepStatus(f, r, p, dir) ==
    LET location == PackageDirOf(r.name)
        desc == location \o <<dir.val, metadata_yaml>>
    IN  CASE p = "idle" ->
                IF ~Validates(r.name) THEN 403
                ELSE IF ~is_dir(f, location) THEN 404
                ELSE 0
          [] p = "resolve" ->
                IF ~dir.some \/ ~HasSubdirectory(f, location) THEN 404 ELSE 0
          [] p \in {"chosen", "resolved"} ->
                IF desc \notin DOMAIN f \/ f[desc] = "dir" THEN 404 ELSE 0
          [] p = "read" ->
                IF desc \in DOMAIN f /\ f[desc] = "yaml_ok" THEN 200 ELSE 500

\* C4 amended: GET /packages/metadata/{name}[?v=spec] ends in exactly one
\* outcome, each condition decided by the registry as it is when the handler
\* looks: 403 iff the name fails validation; otherwise 404 iff the package
\* directory does not exist when looked up, no version directory is resolved
\* from the listing (always so when the package directory has no
\* subdirectory), or the resolved version has no metadata.yaml at one of the
\* two existence checks; otherwise 500 iff the descriptor, present at both
\* checks, cannot be opened or decoded at the read (a descriptor removed
\* after the checks included); otherwise 200 with the JSON of the descriptor.
C4_MetadataOutcomeAtEachCall ==
    [][(req'.op = "metadata" /\ pc' \notin {pc, "idle"}) =>
          /\ (IF pc' = "done" THEN resp'.status ELSE 0)
                = C4_StepStatus(fs, req', pc, chosen')
          /\ resp'.status = 200 =>
                resp'.body = <<"json", PackageDirOf(req'.name)
                                          \o <<chosen'.val, metadata_yaml>>>>]_vars

\* A request was answered 500 for a descriptor that passed both existence
\* checks and is no longer there.
C4_Witness ==
    /\ req.op = "metadata"
    /\ req.v.some
    /\ pc = "done"
    /\ chosen.some
    /\ resp.status = 500
    /\ resp.opened = Some(PackageDirOf(req.name) \o <<chosen.val, metadata_yaml>>)
    /\ resp.opened.val \notin DOMAIN fs

\* A version spec of invalid shape: more than three components, or a
\* component with a character that is not a digit.
InvalidShape(ver) ==
    LET parts == split(ver, ".") IN
    \/ Len(parts) > 3
    \/ \E i \in 1..Len(parts) : \E k \in 1..Len(parts[i]) : parts[i][k] \notin Digits

\* C6: a version spec of invalid shape resolves to NotFound whatever the
\* package directory holds.
C6_InvalidSpecNotFound ==
    [][(/\ Returns
        /\ req'.op = "metadata"
        /\ req'.v.some /\ InvalidShape(req'.v.val)
        /\ Validates(req'.name) /\ is_dir(fs, PackageDirOf(req'.name))) =>
           resp'.status = 404]_vars

\* C7: a request whose v is the empty string resolves, from the listing it
\* takes, to the version directory a request without v resolves to.
C7_EmptySpecIsLatest ==
    [][(/\ req.op = "metadata"
        /\ req.v = Some(<<>>)
        /\ pc = "resolve" /\ pc' # "resolve") =>
           \E order \in ListingOrders(fs, PackageDirOf(req.name)) :
               chosen' = latest_select(fs, PackageDirOf(req.name), order)]_vars

\* C9: the archive of GET /package/{name}/{ver} is the file
\* root/name/ver/name-ver.pax, in the version directory that holds the
\* descriptor; when it exists and both segments validate the response is 200
\* with that file.
C9_ArchiveInVersionDir ==
    [][(/\ Returns
        /\ req'.op = "package"
        /\ Validates(req'.name) /\ Validates(ArchiveOf(req'))
        /\ PlainNames(req'.ver) = <<req'.ver>>) =>
           LET file == PackageDirOf(req'.name) \o <<req'.ver, ArchiveOf(req')>> IN
           /\ is_file(fs, file) => (resp'.status = 200 /\ resp'.body = <<"file", file>>)
           /\ resp'.status = 200 => resp'.body = <<"file", file>>]_vars

(***************************************************************************)
(* SpecResolve: the version resolver (lines 36-40, get_latest,             *)
(* get_version) applied to every small package directory, under every      *)
(* enumeration order of its entries.                                       *)
(***************************************************************************)
MaxDirs == 4

ResolveNames ==
    {<<"0", ".", "0", ".", "0">>, <<"1", ".", "0", ".", "0">>, <<"1", ".", "0", ".", "0", "-", "R", "C", "1">>, <<"1", ".", "2", ".", "0">>, <<"1", ".", "2", ".", "5">>, <<"2", ".", "0", ".", "0">>, <<"1", "0", ".", "0", ".", "0">>, <<"l", "a", "t", "e", "s", "t">>}

ResolveVersions == {None} \cup {Some(v) : v \in {<<"0">>, <<"1">>, <<"1", ".", "2">>, <<"2", ".", "0", ".", "0">>}}

\* A package directory with the version directories dirs, each with a
\* descriptor except those of bare.
PackageFs(dirs, bare) ==
    [p \in DOMAIN BaseFs \cup {VersionDir(d) : d \in dirs}
                         \cup {Descriptor(d) : d \in dirs \ bare} |->
        IF p \in DOMAIN BaseFs THEN BaseFs[p]
        ELSE IF Len(p) = Len(PkgDir) + 1 THEN "dir"
        ELSE "yaml_ok"]

ResolveFilesystems ==
    {PackageFs(dirs, bare) :
        <<dirs, bare>> \in {db \in (SUBSET ResolveNames) \X (SUBSET ResolveNames) :
                               /\ Cardinality(db[1]) <= MaxDirs
                               /\ db[2] \subseteq db[1]
                               /\ Cardinality(db[2]) <= 1}}

InitResolve == fs \in ResolveFilesystems /\ snap = BaseFs /\ Idle

Resolve(v) ==
    /\ pc = "idle"
    /\ \E order \in Orders(read_dir(fs, PkgDir).val) :
          /\ chosen' = resolve_select(fs, PkgDir, v, order)
          /\ resp' = [status |-> 0, result |-> resolve(fs, PkgDir, v, order)]
    /\ req' = [op |-> "resolve", location |-> PkgDir, v |-> v]
    /\ pc' = "done"
    /\ UNCHANGED <<fs, snap, touched>>

NextResolve == \E v \in ResolveVersions : Resolve(v)

SpecResolve == InitResolve /\ [][NextResolve]_vars

\* The subdirectories of the package directory
Subdirs(f) == {d \in ResolveNames : is_dir(f, VersionDir(d))}

IsPrefix(p, s) == Len(p) <= Len(s) /\ \A i \in 1..Len(p) : s[i] = p[i]

\* The number of "." in s
Dots(s) == Cardinality({i \in 1..Len(s) : s[i] = "."})

\* The candidate set of a version spec M, M.N or M.N.P (or of no spec)
Candidates(f, v) ==
    IF ~v.some THEN Subdirs(f)
    ELSE IF Dots(v.val) = 2 THEN {d \in Subdirs(f) : d = v.val}
    ELSE {d \in Subdirs(f) : IsPrefix(v.val \o <<".">>, d)}

Parsable(name) == SemVerParse(name).some

KeyLeq(a, b) == SemVerCmp(SortKey(a), SortKey(b)) <= 0

SpecExample == {<<"1", ".", "0", ".", "0">>, <<"1", ".", "2", ".", "0">>, <<"1", ".", "2", ".", "5">>, <<"2", ".", "0", ".", "0">>}

\* C5: the resolver picks a maximum, by semantic-version order, of the
\* candidate set of the spec (all subdirectories; those starting with "M.";
\* those starting with "M.N."; the one named "M.N.P"); among candidates whose
\* names all parse the maximum is strict, so the pick does not depend on the
\* enumeration order; for {1.0.0, 1.2.0, 1.2.5, 2.0.0}: "1" and "1.2" pick
\* 1.2.5, "2.0.0" and no spec pick 2.0.0.
C5_PicksMaximum ==
    req.op = "resolve" =>
        LET cands == Candidates(fs, req.v) IN
        /\ cands = {} <=> chosen = None
        /\ chosen.some =>
              /\ chosen.val \in cands
              /\ \A c \in cands : KeyLeq(c, chosen.val)
              /\ (\A c \in cands : Parsable(c)) =>
                    \A c \in cands \ {chosen.val} : ~KeyLeq(chosen.val, c)
        /\ Subdirs(fs) = SpecExample =>
              chosen = CASE req.v = None -> Some(<<"2", ".", "0", ".", "0">>)
                         [] req.v = Some(<<"1">>) -> Some(<<"1", ".", "2", ".", "5">>)
                         [] req.v = Some(<<"1", ".", "2">>) -> Some(<<"1", ".", "2", ".", "5">>)
                         [] req.v = Some(<<"2", ".", "0", ".", "0">>) -> Some(<<"2", ".", "0", ".", "0">>)
                         [] OTHER -> None

\* Spec "1" on the directory of the example has picked 1.2.5.
C5_Witness ==
    /\ req.op = "resolve"
    /\ Subdirs(fs) = SpecExample
    /\ req.v = Some(<<"1">>)
    /\ chosen = Some(<<"1", ".", "2", ".", "5">>)
    /\ resp.result = Some(Descriptor(<<"1", ".", "2", ".", "5">>))

\* C8 as claimed: with no spec, a package directory with at least one
\* subdirectory whose name parses never resolves to a subdirectory whose name
\* does not parse.
C8_UnparsableNeverWins ==
    (/\ req.op = "resolve"
     /\ req.v = None
     /\ \E d \in Subdirs(fs) : Parsable(d)) =>
        chosen.some /\ Parsable(chosen.val)

\* C8 amended: with no spec, a package directory with at least one
\* subdirectory whose name parses as a version greater than 0.0.0 never
\* resolves to a subdirectory whose name does not parse.
C8_UnparsableLosesToPositive ==
    (/\ req.op = "resolve"
     /\ req.v = None
     /\ \E d \in Subdirs(fs) :
           Parsable(d) /\ SemVerCmp(SortKey(d), SemVerZero) > 0) =>
        chosen.some /\ Parsable(chosen.val)

\* "latest" and 1.0.0 side by side, no spec: 1.0.0 has been picked.
C8_Witness ==
    /\ req.op = "resolve"
    /\ req.v = None
    /\ Subdirs(fs) = {<<"l", "a", "t", "e", "s", "t">>, <<"1", ".", "0", ".", "0">>}
    /\ chosen = Some(<<"1", ".", "0", ".", "0">>)


(***************************************************************************)
(* SpecRace: one metadata request taken step by step (every filesystem     *)
(* call is a step) while the publisher changes the registry at any moment. *)
(* snap is the filesystem as the directory was listed; touched holds the   *)
(* versions whose metadata.yaml changed since.                             *)
(***************************************************************************)
RaceVersions == {<<"1", ".", "0", ".", "0">>, <<"2", ".", "0", ".", "0">>}

RaceNames == {pkg, notes, <<".", ".", "/", "p", "k", "g">>}

RaceSpecs == {None, Some(<<"1">>), Some(<<"1", ".", "2", ".", "3", ".", "4">>)}

InFlight == {"chosen", "resolved", "read"}

InitRace == fs = BaseFs /\ snap = BaseFs /\ Idle

RacePublisher ==
    \/ \E v \in RaceVersions : PublishVersion(v)
    \/ \E v \in RaceVersions, node \in {"yaml_ok", "yaml_bad"} : PutDescriptor(v, node)
    \/ \E v \in RaceVersions : RemoveDescriptor(v)

RacePublish ==
    /\ RacePublisher
    /\ touched' = IF pc \in InFlight
                  THEN touched \cup {v \in RaceVersions :
                          (Descriptor(v) \in DOMAIN fs) # (Descriptor(v) \in DOMAIN fs')
                          \/ (/\ Descriptor(v) \in DOMAIN fs
                              /\ fs[Descriptor(v)] # fs'[Descriptor(v)])}
                  ELSE touched
    /\ UNCHANGED <<req, resp, pc, chosen, snap>>

RaceStart(name, v) ==
    /\ MetadataStart(name, v)
    /\ snap' = fs
    /\ UNCHANGED touched

\* The listing: from here on snap is the filesystem as it was listed.
RaceList ==
    /\ MetadataList
    /\ snap' = fs
    /\ touched' = {}

RaceCheck == MetadataCheck /\ UNCHANGED history

RaceRecheck == MetadataRecheck /\ UNCHANGED history

RaceRead == MetadataRead /\ UNCHANGED history

RaceDeliver ==
    /\ Deliver
    /\ snap' = BaseFs
    /\ touched' = {}

NextRace ==
    \/ RacePublish
    \/ \E name \in RaceNames, v \in RaceSpecs : RaceStart(name, v)
    \/ RaceList
    \/ RaceCheck
    \/ RaceRecheck
    \/ RaceRead
    \/ RaceDeliver

SpecRace == InitRace /\ [][NextRace]_vars

\* C10 as claimed: the outcome of a metadata request is the outcome on the
\* filesystem as its directory was listed; no later change by the publisher
\* changes the version chosen or the status.
C10_ListingDecidesOutcome ==
    (req.op = "metadata" /\ pc = "done") =>
        resp.status = C4_Expected(snap, req, chosen)

\* C10 amended: the version chosen is a function of the listing alone, and
\* so is the status unless the metadata.yaml of the chosen version changed
\* between the listing and the read: adding a version directory, or changing
\* another version's metadata.yaml, changes neither.
C10_ListingDecidesChoice ==
    /\ (req.op = "metadata" /\ pc \in InFlight \cup {"done"}
           /\ Validates(req.name) /\ is_dir(snap, PackageDirOf(req.name))) =>
          \E order \in Orders(read_dir(snap, PackageDirOf(req.name)).val) :
              chosen = resolve_select(snap, PackageDirOf(req.name), req.v, order)
    /\ (req.op = "metadata" /\ pc = "done"
           /\ (chosen.some => chosen.val \notin touched)) =>
          resp.status = C4_Expected(snap, req, chosen)

\* A request has been answered 200 from the version chosen at the listing
\* although a version directory was added while it was in flight.
C10_Witness ==
    /\ req.op = "metadata"
    /\ pc = "done"
    /\ resp.status = 200
    /\ chosen = Some(<<"1", ".", "0", ".", "0">>)
    /\ <<"2", ".", "0", ".", "0">> \in Published(fs) \ Published(snap)
    /\ touched = {<<"2", ".", "0", ".", "0">>}

====
